---- MODULE Spec2Model ----
(***************************************************************************)
(* Model of the text-to-sql backend: the SQL validator of                  *)
(* backend/sql_validator.py (regular expressions evaluated character by    *)
(* character on the SQL text) and the execute-with-retry request handler   *)
(* of backend/app.py.                                                      *)
(***************************************************************************)
EXTENDS Integers, Sequences, FiniteSets, TLC

(***************************************************************************)
(* Characters and Python's str / re primitives.  A text is a TLA+ string;  *)
(* Char(s, i) is s[i-1] of Python.                                         *)
(***************************************************************************)
Char(s, i) == SubSeq(s, i, i)

LowerLetters == <<"a","b","c","d","e","f","g","h","i","j","k","l","m",
                  "n","o","p","q","r","s","t","u","v","w","x","y","z">>
UpperLetters == <<"A","B","C","D","E","F","G","H","I","J","K","L","M",
                  "N","O","P","Q","R","S","T","U","V","W","X","Y","Z">>
DigitChars == {"0","1","2","3","4","5","6","7","8","9"}
LetterIdx == 1..Len(LowerLetters)
LowerSet == {LowerLetters[i] : i \in LetterIdx}
UpperSet == {UpperLetters[i] : i \in LetterIdx}
UpperOf == [c \in LowerSet |-> UpperLetters[CHOOSE i \in LetterIdx : LowerLetters[i] = c]]
LowerOf == [c \in UpperSet |-> LowerLetters[CHOOSE i \in LetterIdx : UpperLetters[i] = c]]

\* re.IGNORECASE compares characters after case folding
upper(c) == IF c \in LowerSet THEN UpperOf[c] ELSE c

WordCharSet == LowerSet \cup UpperSet \cup DigitChars \cup {"_"}
SpaceSet == {" ", "\t", "\n", "\r"}

\* the character class [a-zA-Z0-9_] (also \w on these texts)
IsWordChar(c) == c \in WordCharSet

\* the character class \s, and the characters str.strip() removes
IsSpace(c) == c \in SpaceSet

RECURSIVE lower(_)
\* str.lower()
lower(s) ==
  IF s = "" THEN ""
  ELSE LET c == Char(s, 1)
       IN (IF c \in UpperSet THEN LowerOf[c] ELSE c) \o lower(SubSeq(s, 2, Len(s)))

RECURSIVE lstrip(_)
lstrip(s) ==
  IF s # "" /\ IsSpace(Char(s, 1)) THEN lstrip(SubSeq(s, 2, Len(s))) ELSE s

RECURSIVE rstrip(_)
rstrip(s) ==
  IF s # "" /\ IsSpace(Char(s, Len(s))) THEN rstrip(SubSeq(s, 1, Len(s) - 1)) ELSE s

\* str.strip()
strip(s) == rstrip(lstrip(s))

\* \b between positions i-1 and i (1 <= i <= Len(s)+1)
WordBoundary(s, i) ==
  LET before == i > 1 /\ IsWordChar(Char(s, i - 1))
      after  == i <= Len(s) /\ IsWordChar(Char(s, i))
  IN before # after

\* the literal lit matches s at position i; ic is re.IGNORECASE
MatchLit(s, i, lit, ic) ==
  /\ i >= 1
  /\ i + Len(lit) - 1 <= Len(s)
  /\ \A j \in 1..Len(lit) :
        IF ic THEN upper(Char(s, i + j - 1)) = upper(Char(lit, j))
              ELSE Char(s, i + j - 1) = Char(lit, j)

RECURSIVE SkipSpace(_, _)
\* position after the longest run of \s starting at i  (\s* and \s+ are greedy)
SkipSpace(s, i) ==
  IF i <= Len(s) /\ IsSpace(Char(s, i)) THEN SkipSpace(s, i + 1) ELSE i

RECURSIVE SkipIdent(_, _)
\* position after the longest run of [a-zA-Z0-9_] starting at i
SkipIdent(s, i) ==
  IF i <= Len(s) /\ IsWordChar(Char(s, i)) THEN SkipIdent(s, i + 1) ELSE i

\* the substring of s from position i up to, not including, position j
Slice(s, i, j) == SubSeq(s, i, j - 1)

\* "sub in s"
Contains(s, sub) == \E i \in 1..Len(s) : MatchLit(s, i, sub, FALSE)

(***************************************************************************)
(* SqlValidator.__init__: the patterns.  A pattern is a record that        *)
(* re_search interprets:                                                   *)
(*   words        \bW1\b|\bW2\b|...                                        *)
(*   word_ws_word \bA\s+B\b                                                *)
(*   literal      the characters themselves                                *)
(***************************************************************************)
WordPat(alts) == [kind |-> "words", alts |-> alts, first |-> "", second |-> ""]
WordWsWordPat(a, b) == [kind |-> "word_ws_word", alts |-> <<>>, first |-> a, second |-> b]
LitPat(t) == [kind |-> "literal", alts |-> <<t>>, first |-> "", second |-> ""]

\* \bW\b matches s at position i
WordAt(s, i, w, ic) ==
  /\ MatchLit(s, i, w, ic)
  /\ WordBoundary(s, i)
  /\ WordBoundary(s, i + Len(w))

\* \bA\s+B\b matches s at position i
WordWsWordAt(s, i, a, b, ic) ==
  /\ WordBoundary(s, i)
  /\ MatchLit(s, i, a, ic)
  /\ LET j == SkipSpace(s, i + Len(a))
     IN /\ j > i + Len(a)
        /\ MatchLit(s, j, b, ic)
        /\ WordBoundary(s, j + Len(b))

\* the positions where a word starts: the only positions where a pattern that
\* begins with \b and a word character can match
WordStarts(s) ==
  {i \in 1..Len(s) : IsWordChar(Char(s, i)) /\ WordBoundary(s, i)}

\* the pattern matches s at position i
MatchAt(pat, s, i, ic) ==
  CASE pat.kind = "words" ->
         \E k \in 1..Len(pat.alts) : WordAt(s, i, pat.alts[k], ic)
    [] pat.kind = "word_ws_word" ->
         WordWsWordAt(s, i, pat.first, pat.second, ic)
    [] pat.kind = "literal" ->
         MatchLit(s, i, pat.alts[1], ic)

\* re.search with the word starts of s already computed
re_search_from(pat, s, ic, starts) ==
  \E i \in (IF pat.kind = "literal" THEN 1..Len(s) ELSE starts) : MatchAt(pat, s, i, ic)

\* bool(re.search(pattern, s, re.IGNORECASE if ic else 0))
re_search(pat, s, ic) == re_search_from(pat, s, ic, WordStarts(s))

dangerous_patterns_delete_first ==
  << [pattern |-> WordPat(<<"DELETE">>), message |-> "DELETE operations are not allowed"],
     [pattern |-> WordPat(<<"DROP">>), message |-> "DROP operations are not allowed"],
     [pattern |-> WordPat(<<"TRUNCATE">>), message |-> "TRUNCATE operations are not allowed"],
     [pattern |-> WordPat(<<"UPDATE">>), message |-> "UPDATE operations are not allowed"],
     [pattern |-> WordPat(<<"INSERT">>), message |-> "INSERT operations are not allowed"],
     [pattern |-> WordPat(<<"EXEC", "EXECUTE">>), message |-> "EXEC/EXECUTE operations are not allowed"],
     [pattern |-> WordPat(<<"MASTER">>), message |-> "References to master database are not allowed"],
     [pattern |-> WordPat(<<"SYSDBA">>), message |-> "SYSDBA operations are not allowed"],
     [pattern |-> WordWsWordPat("INTO", "OUTFILE"), message |-> "INTO OUTFILE operations are not allowed"],
     [pattern |-> WordPat(<<"LOAD_FILE">>), message |-> "LOAD_FILE operations are not allowed"],
     [pattern |-> WordPat(<<"ALTER">>), message |-> "ALTER operations are not allowed"],
     [pattern |-> WordPat(<<"CREATE">>), message |-> "CREATE operations are not allowed"],
     [pattern |-> LitPat("--"), message |-> "SQL comments are not allowed"],
     [pattern |-> LitPat("/*"), message |-> "SQL comments are not allowed"] >>

\* self.dangerous_patterns
dangerous_patterns ==
  << [pattern |-> WordPat(<<"DROP">>), message |-> "DROP operations are not allowed"],
     [pattern |-> WordPat(<<"TRUNCATE">>), message |-> "TRUNCATE operations are not allowed"],
     [pattern |-> WordPat(<<"DELETE">>), message |-> "DELETE operations are not allowed"],
     [pattern |-> WordPat(<<"UPDATE">>), message |-> "UPDATE operations are not allowed"],
     [pattern |-> WordPat(<<"INSERT">>), message |-> "INSERT operations are not allowed"],
     [pattern |-> WordPat(<<"EXEC", "EXECUTE">>), message |-> "EXEC/EXECUTE operations are not allowed"],
     [pattern |-> WordPat(<<"MASTER">>), message |-> "References to master database are not allowed"],
     [pattern |-> WordPat(<<"SYSDBA">>), message |-> "SYSDBA operations are not allowed"],
     [pattern |-> WordWsWordPat("INTO", "OUTFILE"), message |-> "INTO OUTFILE operations are not allowed"],
     [pattern |-> WordPat(<<"LOAD_FILE">>), message |-> "LOAD_FILE operations are not allowed"],
     [pattern |-> WordPat(<<"ALTER">>), message |-> "ALTER operations are not allowed"],
     [pattern |-> WordPat(<<"CREATE">>), message |-> "CREATE operations are not allowed"],
     [pattern |-> LitPat("--"), message |-> "SQL comments are not allowed"],
     [pattern |-> LitPat("/*"), message |-> "SQL comments are not allowed"] >>

allowed_operations_substring == << LitPat("SELECT") >>

\* self.allowed_operations
allowed_operations == << WordPat(<<"SELECT">>) >>

\* the keyword alternatives of self.multiple_statements_pattern
StatementKeywords == <<"SELECT", "INSERT", "UPDATE", "DELETE", "DROP", "CREATE", "ALTER">>

multiple_statements_pattern_any(s) == Contains(s, ";")

\* re.search(r';\s*(SELECT|INSERT|UPDATE|DELETE|DROP|CREATE|ALTER)\b', s, re.IGNORECASE)
multiple_statements_pattern(s) ==
  \E i \in 1..Len(s) :
     /\ Char(s, i) = ";"
     /\ LET j == SkipSpace(s, i + 1)
        IN \E k \in 1..Len(StatementKeywords) :
              /\ MatchLit(s, j, StatementKeywords[k], TRUE)
              /\ WordBoundary(s, j + Len(StatementKeywords[k]))

(***************************************************************************)
(* Matches of the extraction patterns.  A match is a record; ok = FALSE    *)
(* when the pattern does not match at that position.  end is the position  *)
(* after the match, where finditer / findall resume (matches never         *)
(* overlap).                                                               *)
(***************************************************************************)
NoMatch == [ok |-> FALSE, end |-> 0, schema |-> "", table |-> "", alias |-> ""]

\* kw\s+([a-zA-Z0-9_]+)\.  at position i; the keyword is matched as written
SchemaRefAt(s, kw, i) ==
  IF ~MatchLit(s, i, kw, FALSE) THEN NoMatch
  ELSE LET a == i + Len(kw)
           b == SkipSpace(s, a)
           c == SkipIdent(s, b)
       IN IF b > a /\ c > b /\ c <= Len(s) /\ Char(s, c) = "."
          THEN [ok |-> TRUE, end |-> c + 1, schema |-> Slice(s, b, c),
                table |-> "", alias |-> ""]
          ELSE NoMatch

RECURSIVE FindSchemaRefs(_, _, _)
\* set(re.findall(kw + r'\s+([a-zA-Z0-9_]+)\.', s)), scanning from position i
FindSchemaRefs(s, kw, i) ==
  IF i > Len(s) THEN {}
  ELSE LET m == SchemaRefAt(s, kw, i)
       IN IF m.ok THEN {m.schema} \cup FindSchemaRefs(s, kw, m.end)
          ELSE FindSchemaRefs(s, kw, i + 1)

\* the optional group (?:\s+(?:AS\s+)?([a-zA-Z0-9_]+))? at position d
AliasAt(s, d) ==
  LET e == SkipSpace(s, d)
      f == SkipSpace(s, e + 2)
      g == SkipIdent(s, f)
      h == SkipIdent(s, e)
  IN IF e = d THEN [ok |-> FALSE, end |-> d, alias |-> ""]
     ELSE IF MatchLit(s, e, "AS", TRUE) /\ f > e + 2 /\ g > f
          THEN [ok |-> TRUE, end |-> g, alias |-> Slice(s, f, g)]
     ELSE IF h > e
          THEN [ok |-> TRUE, end |-> h, alias |-> Slice(s, e, h)]
     ELSE [ok |-> FALSE, end |-> d, alias |-> ""]

\* table_pattern at position i, under re.IGNORECASE:
\* (?:FROM|JOIN)\s+([a-zA-Z0-9_]+)\.([a-zA-Z0-9_]+)(?:\s+(?:AS\s+)?([a-zA-Z0-9_]+))?
TableRefAt(s, i) ==
  IF ~(MatchLit(s, i, "FROM", TRUE) \/ MatchLit(s, i, "JOIN", TRUE)) THEN NoMatch
  ELSE LET a == i + 4
           b == SkipSpace(s, a)
           c == SkipIdent(s, b)
           d == SkipIdent(s, c + 1)
       IN IF b > a /\ c > b /\ c <= Len(s) /\ Char(s, c) = "." /\ d > c + 1
          THEN LET al == AliasAt(s, d)
               IN [ok |-> TRUE, end |-> al.end, schema |-> Slice(s, b, c),
                   table |-> Slice(s, c + 1, d), alias |-> al.alias]
          ELSE NoMatch

\* aliases[key] = full_name: a later binding replaces an earlier one
Bind(aliases, key, full_name) == (key :> full_name) @@ aliases

RECURSIVE ScanTableRefs(_, _, _)
\* the loop over re.finditer(table_pattern, sql, re.IGNORECASE) from position i
ScanTableRefs(s, i, aliases) ==
  IF i > Len(s) THEN aliases
  ELSE LET m == TableRefAt(s, i)
           full_name == m.schema \o "." \o m.table
       IN IF m.ok
          THEN ScanTableRefs(s, m.end,
                 IF m.alias # "" THEN Bind(aliases, lower(m.alias), full_name)
                                 ELSE Bind(aliases, lower(m.table), full_name))
          ELSE ScanTableRefs(s, i + 1, aliases)

\* SqlValidator.extract_table_aliases, once sqlparse.parse(sql) has returned:
\* a function from alias to schema.table (the empty function <<>> is {})
extract_table_aliases(sql) ==
  IF sql = "" THEN <<>> ELSE ScanTableRefs(sql, 1, <<>>)

NoColumnMatch == [ok |-> FALSE, end |-> 0, table_alias |-> "", column_name |-> ""]

\* column_pattern ([a-zA-Z0-9_]+)\.([a-zA-Z0-9_]+) at position i
ColumnRefAt(s, i) ==
  LET c == SkipIdent(s, i)
      d == SkipIdent(s, c + 1)
  IN IF c > i /\ c <= Len(s) /\ Char(s, c) = "." /\ d > c + 1
     THEN [ok |-> TRUE, end |-> d,
           table_alias |-> lower(Slice(s, i, c)), column_name |-> Slice(s, c + 1, d)]
     ELSE NoColumnMatch

RECURSIVE ScanColumnRefs(_, _)
\* the loop over re.finditer(column_pattern, sql, re.IGNORECASE) from position i
ScanColumnRefs(s, i) ==
  IF i > Len(s) THEN <<>>
  ELSE LET m == ColumnRefAt(s, i)
       IN IF m.ok
          THEN << <<m.table_alias, m.column_name>> >> \o ScanColumnRefs(s, m.end)
          ELSE ScanColumnRefs(s, i + 1)

\* SqlValidator.extract_column_references: the list of (table_alias, column_name)
extract_column_references(sql) == ScanColumnRefs(sql, 1)

(***************************************************************************)
(* The validator object (self): valid_schemas is a set of schema names,    *)
(* columns_dict a function from "schema.table" to a set of column names.   *)
(* A (is_valid, error_message) pair is a record.                           *)
(***************************************************************************)
Valid == [is_valid |-> TRUE, error |-> ""]
Invalid(message) == [is_valid |-> FALSE, error |-> message]

RECURSIVE CheckColumnRefs(_, _, _, _)
\* the for loop of validate_columns over column_refs[k..]
CheckColumnRefs(self, aliases, column_refs, k) ==
  IF k > Len(column_refs) THEN Valid
  ELSE LET table_alias == column_refs[k][1]
           column_name == column_refs[k][2]
       IN IF table_alias \notin DOMAIN aliases
          THEN CheckColumnRefs(self, aliases, column_refs, k + 1)
          ELSE LET full_table_name == aliases[table_alias]
               IN IF full_table_name \notin DOMAIN self.columns_dict
                  THEN Invalid("Referenced table not found: " \o full_table_name)
                  ELSE IF column_name \notin self.columns_dict[full_table_name]
                  THEN Invalid("Column '" \o column_name \o "' not found in table '"
                               \o full_table_name \o "'")
                  ELSE CheckColumnRefs(self, aliases, column_refs, k + 1)

validate_columns_fail_closed(self, sql, parser_ok) ==
  IF ~parser_ok THEN Invalid("Error validating columns")
  ELSE LET aliases == extract_table_aliases(sql)
       IN IF DOMAIN aliases = {} THEN Valid
          ELSE CheckColumnRefs(self, aliases, extract_column_references(sql), 1)

\* SqlValidator.validate_columns.  parser_ok is FALSE when sqlparse.parse(sql)
\* raises inside extract_table_aliases: the except clause returns (True, "").
validate_columns(self, sql, parser_ok) ==
  IF ~parser_ok THEN Valid
  ELSE LET aliases == extract_table_aliases(sql)
       IN IF DOMAIN aliases = {} THEN Valid
          ELSE CheckColumnRefs(self, aliases, extract_column_references(sql), 1)

\* position of a name in the iteration order of a set of names
Rank(order, x) ==
  IF \E i \in 1..Len(order) : order[i] = x
  THEN CHOOSE i \in 1..Len(order) : order[i] = x
  ELSE Len(order) + 1

\* the first element a "for x in names" loop visits
FirstInOrder(names, order) ==
  CHOOSE x \in names : \A y \in names : Rank(order, x) <= Rank(order, y)

RECURSIVE JoinNames(_, _)
\* ', '.join(names), the names taken in the order of the sequence all
JoinNames(names, all) ==
  IF all = <<>> THEN ""
  ELSE LET rest == JoinNames(names, Tail(all))
       IN IF Head(all) \notin names THEN rest
          ELSE IF rest = "" THEN Head(all)
          ELSE Head(all) \o ", " \o rest

\* the schemas_used set of validate
schemas_used(sql) == FindSchemaRefs(sql, "FROM", 1) \cup FindSchemaRefs(sql, "JOIN", 1)

\* index of the first dangerous pattern found in sql, 0 when there is none
FirstDangerous(sql) ==
  LET starts == WordStarts(sql)
      hits == {k \in 1..Len(dangerous_patterns) :
                 re_search_from(dangerous_patterns[k].pattern, sql, TRUE, starts)}
  IN IF hits = {} THEN 0 ELSE CHOOSE k \in hits : \A j \in hits : k <= j

(***************************************************************************)
(* The database the metadata queries read: INFORMATION_SCHEMA.SCHEMATA and *)
(* INFORMATION_SCHEMA.COLUMNS rows (TABLE_SCHEMA, TABLE_NAME, COLUMN_NAME).*)
(***************************************************************************)
DbSchemata == {"Person", "Sales", "dbo"}
DbColumnRows == { <<"Person", "Person", "FirstName">>,
                  <<"Person", "Person", "LastName">>,
                  <<"Sales", "Store", "Name">> }

\* the fallback set of get_database_schemas
DefaultSchemas == {"Person", "HumanResources", "Production", "Purchasing", "Sales", "dbo"}

\* the order in which the names of valid_schemas are listed in a message
SchemaListOrder == <<"Person", "HumanResources", "Production", "Purchasing", "Sales", "dbo">>

\* how one metadata fetch can go: get_db_connection returns a connection and
\* the query runs; get_db_connection returns None; the cursor raises
FetchOutcomes == {"ok", "no_connection", "query_error"}

\* get_database_schemas
get_database_schemas(outcome) ==
  CASE outcome = "ok" -> DbSchemata
    [] outcome = "no_connection" -> {}
    [] outcome = "query_error" -> DefaultSchemas

\* get_database_columns
get_database_columns(outcome) ==
  IF outcome = "ok"
  THEN LET keys == {r[1] \o "." \o r[2] : r \in DbColumnRows}
       IN [key \in keys |-> {r[3] : r \in {q \in DbColumnRows : q[1] \o "." \o q[2] = key}}]
  ELSE <<>>

\* SqlValidator() with no arguments
SqlValidator(schema_outcome, column_outcome) ==
  [valid_schemas |-> get_database_schemas(schema_outcome),
   columns_dict |-> get_database_columns(column_outcome)]

\* the schema check of validate on the stripped text, and what follows it
ValidateSchemas(self, sql, parser_ok, order) ==
  LET used == schemas_used(sql)
      unknown == {schema \in used : schema \notin self.valid_schemas}
  IN IF unknown # {}
     THEN Invalid("Invalid schema: " \o FirstInOrder(unknown, order)
                  \o ". Valid schemas are: " \o JoinNames(self.valid_schemas, SchemaListOrder))
     ELSE IF used # {} THEN validate_columns(self, sql, parser_ok)
     ELSE Valid

\* SqlValidator.validate
validate(self, text, parser_ok, order) ==
  LET sql == strip(text)
      k == FirstDangerous(sql)
  IN IF sql = "" THEN Invalid("SQL query is empty")
     ELSE IF ~(\E a \in 1..Len(allowed_operations) : re_search(allowed_operations[a], sql, TRUE))
     THEN Invalid("Only SELECT operations are allowed")
     ELSE IF k # 0 THEN Invalid(dangerous_patterns[k].message)
     ELSE IF multiple_statements_pattern(sql)
     THEN Invalid("Multiple SQL statements are not allowed")
     ELSE ValidateSchemas(self, sql, parser_ok, order)

\* re.search(r'\bLIKE\s+[\'"]%', sql, re.IGNORECASE)
LikeWildcard(sql) ==
  \E i \in 1..Len(sql) :
     /\ WordBoundary(sql, i)
     /\ MatchLit(sql, i, "LIKE", TRUE)
     /\ LET j == SkipSpace(sql, i + 4)
        IN /\ j > i + 4
           /\ j + 1 <= Len(sql)
           /\ Char(sql, j) \in {"'", "\""}
           /\ Char(sql, j + 1) = "%"

\* SqlValidator.check_for_warnings
check_for_warnings(sql) ==
  (IF LikeWildcard(sql) \/ re_search(WordPat(<<"OR">>), sql, TRUE)
   THEN <<"This query may be slow due to LIKE '%...' pattern or OR conditions">>
   ELSE <<>>)
  \o
  (IF /\ re_search(LitPat("ORDER BY"), sql, TRUE)
      /\ ~(\/ re_search(LitPat("TOP"), sql, TRUE)
           \/ re_search(LitPat("OFFSET"), sql, TRUE)
           \/ re_search(LitPat("FETCH"), sql, TRUE))
   THEN <<"This query uses ORDER BY without LIMIT which may be inefficient">>
   ELSE <<>>)
  \o
  (IF Contains(sql, ";")
   THEN <<"Semicolons in SQL queries are not needed and might cause issues">>
   ELSE <<>>)

\* the dict get_sql_analysis returns, from the validator in use
Analysis(self, sql, parser_ok, order) ==
  LET r == validate(self, sql, parser_ok, order)
      warnings == IF r.is_valid THEN check_for_warnings(sql) ELSE <<>>
  IN [is_valid |-> r.is_valid,
      error |-> r.error,
      warnings |-> warnings,
      estimated_safe |-> r.is_valid /\ warnings = <<>>]

is_select_statement_search(sql) == re_search(WordPat(<<"SELECT">>), sql, TRUE)

\* is_select_statement: re.match(r'^\s*SELECT\b', sql, re.IGNORECASE)
is_select_statement(sql) ==
  LET j == SkipSpace(sql, 1)
  IN MatchLit(sql, j, "SELECT", TRUE) /\ WordBoundary(sql, j + 6)

(***************************************************************************)
(* State.  Python's None is the empty sequence and a value x that may be   *)
(* None is <<x>>.                                                          *)
(***************************************************************************)
None == <<>>
Some(x) == <<x>>
\* Python truth of an Optional[str]: None and "" are false
Truthy(opt) == opt # None /\ opt[1] # ""

VARIABLES
  validator,          \* sql_validator._validator
  fetched,            \* environment: how the two metadata fetches of the SqlValidator()
                      \* call that built validator went (schemas, columns)
  parser_ok,          \* environment: sqlparse.parse returns (TRUE) or raises (FALSE)
  order,              \* environment: iteration order of a set of strings in this process
  sql,                \* request.sql
  pc,                 \* position of the handler
  attempt,            \* local attempt of execute_sql_endpoint
  validation_result,  \* the dict returned by the last get_sql_analysis call
  analysed,           \* the text and the validator of that call
  outcome,            \* (results, execution_time, error) of the last execute_sql call
  response,           \* the dict the handler returned, None while it runs
  exec_calls,         \* number of execute_sql calls made by the handler
  db_calls,           \* number of statements sent to the database by execute_sql
  regen_calls,        \* number of generate_sql_with_feedback calls made by the handler
  errors_logged,      \* the str(e) logged by "except Exception as e" of the handler
  content,            \* the reply of the text-generation service being parsed
  explanation,        \* the explanation parsed out of content
  call_self,          \* self of the validate call in progress: the instance read from
                      \* _validator and the number of the refresh that installed it
  new_instance,       \* the instance SqlValidator() of a refresh is constructing
  generation,         \* number of refreshes that have assigned _validator
  reads               \* the attribute reads of the validate call in progress

vars == <<validator, fetched, parser_ok, order, sql, pc, attempt, validation_result,
          analysed, outcome, response, exec_calls, db_calls, regen_calls, errors_logged,
          content, explanation, call_self, new_instance, generation, reads>>

\* the state of a validate call and of a refresh that run side by side
threads == <<call_self, new_instance, generation, reads>>

\* no validate call and no refresh under way
InitThreads ==
  /\ call_self = <<>>
  /\ new_instance = <<>>
  /\ generation = 0
  /\ reads = <<>>

max_attempts_four == 3 + 1

\* max_attempts of execute_sql_endpoint
max_attempts == 3

\* the iteration orders of a set of schema names
Orders == { <<"Person", "Sales", "Nope">>, <<"Nope", "Sales", "Person">> }

\* the validators SqlValidator() can construct
Validators == {SqlValidator(so, co) : so \in FetchOutcomes, co \in FetchOutcomes}

NoAnalysis == [is_valid |-> FALSE, error |-> "", warnings |-> <<>>, estimated_safe |-> FALSE]
NoOutcome == [results |-> None, execution_time |-> None, error |-> None]

\* get_sql_analysis(text, refresh=True): a new SqlValidator() is built first
GetSqlAnalysisRefresh(text) ==
  /\ \E so \in FetchOutcomes, co \in FetchOutcomes :
        /\ fetched' = <<so, co>>
        /\ validator' = SqlValidator(so, co)
  /\ validation_result' = Analysis(validator', text, parser_ok, order)
  /\ analysed' = Some([sql |-> text, validator |-> validator'])
  /\ UNCHANGED <<parser_ok, order>>

\* get_sql_analysis(text) with refresh=False and _validator already constructed
GetSqlAnalysis(text) ==
  /\ validation_result' = Analysis(validator, text, parser_ok, order)
  /\ analysed' = Some([sql |-> text, validator |-> validator])
  /\ UNCHANGED <<validator, fetched, parser_ok, order>>

(***************************************************************************)
(* execute_sql_endpoint, one request.                                      *)
(***************************************************************************)
\* the texts a request carries
RequestSqls ==
  { "SELECT * FROM Sales.Store",
    "SELECT p.FirstName FROM Person.Person p",
    "SELECT * FROM Person.Person",
    "select 1 from Nope.T",
    "WITH t AS (SELECT 1) SELECT 2",
    "DROP TABLE t",
    "" }

\* the texts generate_sql_with_feedback parses out of a reply
CorrectedSqls ==
  { "SELECT s.Name FROM Sales.Store s",
    "SELECT 1; DELETE t",
    "" }

\* what the database does with a statement: rows, or an exception whose str() is given
DbRows == { <<>>, <<"row">> }
DbErrors == { "Invalid object name", "" }

execute_sql_empty_rows(text, db) ==
  IF db[1] = "rows"
  THEN [results |-> Some(db[2]), execution_time |-> Some("time"), error |-> None]
  ELSE [results |-> Some(<<>>), execution_time |-> None, error |-> Some(db[2])]

\* execute_sql(text): the (results, execution_time, error) it returns when the
\* database answers db, which is <<"rows", r>> or <<"error", e>>
execute_sql(text, db) ==
  IF ~is_select_statement(text)
  THEN [results |-> None, execution_time |-> None,
        error |-> Some("Only SELECT statements are allowed for security reasons")]
  ELSE IF db[1] = "rows"
  THEN [results |-> Some(db[2]), execution_time |-> Some("time"), error |-> None]
  ELSE [results |-> None, execution_time |-> None, error |-> Some(db[2])]

DbAnswers == {<<"rows", r>> : r \in DbRows} \cup {<<"error", e>> : e \in DbErrors}

RetryCountOfAttempts(a) == a

\* the retry_count of the normal return: attempt - 1 if attempt > 1 else 0
RetryCount(a) == IF a > 1 THEN a - 1 ELSE 0

InvalidSqlResponseCounted(analysis, a) ==
  [results |-> None, execution_time |-> None,
   error |-> Some("Invalid SQL: " \o analysis.error),
   retry_count |-> Some(RetryCount(a)), fell_through |-> FALSE]

\* the dict returned when validation_result["is_valid"] is false
InvalidSqlResponse(analysis, a) ==
  [results |-> None, execution_time |-> None,
   error |-> Some("Invalid SQL: " \o analysis.error),
   retry_count |-> Some(0), fell_through |-> FALSE]

\* the dict returned after execute_sql
ExecutedResponse(out, a) ==
  [results |-> out.results, execution_time |-> out.execution_time,
   error |-> out.error,
   retry_count |-> Some(RetryCount(a)), fell_through |-> FALSE]

\* the dict returned by the except clause when attempt >= max_attempts
ExceptionResponse(message, a) ==
  [results |-> None, execution_time |-> None,
   error |-> Some(message),
   retry_count |-> Some(a - 1), fell_through |-> FALSE]

\* the implicit "return None" after the while loop
NoneResponse ==
  [results |-> None, execution_time |-> None, error |-> None,
   retry_count |-> None, fell_through |-> TRUE]

\* str(e) of the HTTPException generate_sql_with_feedback raises when the call
\* to the text-generation service fails
UpstreamFailure == "500: Error generating SQL with feedback"

ShouldRegenerateAlways(error, a) == Truthy(error)

\* the test of the branch that asks for a corrected statement
ShouldRegenerate(error, a) == Truthy(error) /\ a < max_attempts

Return(r) ==
  /\ response' = Some(r)
  /\ pc' = "done"

InitRequest ==
  /\ pc = "loop"
  /\ attempt = 0
  /\ validation_result = NoAnalysis
  /\ analysed = None
  /\ outcome = NoOutcome
  /\ response = None
  /\ exec_calls = 0
  /\ db_calls = 0
  /\ regen_calls = 0
  /\ errors_logged = <<>>
  /\ content = ""
  /\ explanation = ""
  /\ InitThreads

InitEnv ==
  /\ \E so \in FetchOutcomes, co \in FetchOutcomes :
        /\ fetched = <<so, co>>
        /\ validator = SqlValidator(so, co)
  /\ parser_ok \in BOOLEAN
  /\ order \in Orders

Init ==
  /\ InitEnv
  /\ sql \in RequestSqls
  /\ InitRequest

\* while attempt < max_attempts: attempt += 1
LoopTest ==
  /\ pc = "loop"
  /\ IF attempt < max_attempts
     THEN /\ attempt' = attempt + 1
          /\ pc' = "validate"
          /\ UNCHANGED response
     ELSE /\ UNCHANGED attempt
          /\ Return(NoneResponse)
  /\ UNCHANGED <<validator, fetched, parser_ok, order, sql, validation_result, analysed,
                 outcome, exec_calls, db_calls, regen_calls, errors_logged, content,
                 explanation, threads>>

ValidateStepUnchecked ==
  /\ pc = "validate"
  /\ GetSqlAnalysis(sql)
  /\ pc' = "execute"
  /\ UNCHANGED <<sql, attempt, outcome, response, exec_calls, db_calls, regen_calls,
                 errors_logged, content, explanation, threads>>

\* validation_result = get_sql_analysis(request.sql) and the return that follows
ValidateStep ==
  /\ pc = "validate"
  /\ GetSqlAnalysis(sql)
  /\ IF ~validation_result'.is_valid
     THEN Return(InvalidSqlResponse(validation_result', attempt))
     ELSE /\ pc' = "execute"
          /\ UNCHANGED response
  /\ UNCHANGED <<sql, attempt, outcome, exec_calls, db_calls, regen_calls, errors_logged,
                 content, explanation, threads>>

\* results, execution_time, error = execute_sql(request.sql), and the code up
\* to the await of generate_sql_with_feedback or to the return
ExecuteStep ==
  /\ pc = "execute"
  /\ \E db \in DbAnswers :
       /\ outcome' = execute_sql(sql, db)
       /\ db_calls' = IF is_select_statement(sql) THEN db_calls + 1 ELSE db_calls
  /\ exec_calls' = exec_calls + 1
  /\ IF ShouldRegenerate(outcome'.error, attempt)
     THEN /\ pc' = "regenerate"
          /\ UNCHANGED response
     ELSE Return(ExecutedResponse(outcome', attempt))
  /\ UNCHANGED <<validator, fetched, parser_ok, order, sql, attempt, validation_result,
                 analysed, regen_calls, errors_logged, content, explanation, threads>>

\* generate_sql_with_feedback returns (sql, explanation): request.sql = sql; continue
RegenerateReturns ==
  /\ pc = "regenerate"
  /\ \E corrected \in CorrectedSqls : sql' = corrected
  /\ regen_calls' = regen_calls + 1
  /\ pc' = "loop"
  /\ UNCHANGED <<validator, fetched, parser_ok, order, attempt, validation_result,
                 analysed, outcome, response, exec_calls, db_calls, errors_logged, content,
                 explanation, threads>>

RegenerateRaisesReturns ==
  /\ pc = "regenerate"
  /\ regen_calls' = regen_calls + 1
  /\ errors_logged' = Append(errors_logged, UpstreamFailure)
  /\ Return(ExceptionResponse(UpstreamFailure, attempt))
  /\ UNCHANGED <<validator, fetched, parser_ok, order, sql, attempt, validation_result,
                 analysed, outcome, exec_calls, db_calls, content, explanation, threads>>

\* generate_sql_with_feedback raises HTTPException: "except Exception" of the
\* handler, which returns only when attempt >= max_attempts
RegenerateRaises ==
  /\ pc = "regenerate"
  /\ regen_calls' = regen_calls + 1
  /\ errors_logged' = Append(errors_logged, UpstreamFailure)
  /\ IF attempt >= max_attempts
     THEN Return(ExceptionResponse(UpstreamFailure, attempt))
     ELSE /\ pc' = "loop"
          /\ UNCHANGED response
  /\ UNCHANGED <<validator, fetched, parser_ok, order, sql, attempt, validation_result,
                 analysed, outcome, exec_calls, db_calls, content, explanation, threads>>

Next ==
  \/ LoopTest
  \/ ValidateStep
  \/ ExecuteStep
  \/ RegenerateReturns
  \/ RegenerateRaises

Spec == Init /\ [][Next]_vars

\* the handler is one coroutine: while it has not returned, its next step is
\* taken, and the call it awaits returns or raises.  get_sql_analysis is a
\* computation without a guard, so ValidateStep is enabled exactly when
\* pc = "validate" and its weak fairness is written with that condition.
SpecLive ==
  /\ Init /\ [][Next]_vars
  /\ WF_vars(LoopTest)
  /\ ([]<>(pc # "validate") \/ []<><<ValidateStep>>_vars)
  /\ WF_vars(ExecuteStep)
  /\ WF_vars(RegenerateReturns \/ RegenerateRaises)

(***************************************************************************)
(* get_sql_analysis as a function of the text: the specifications          *)
(* SpecWords and SpecQuery draw a text and apply get_sql_analysis to it.   *)
(***************************************************************************)
\* most words after the head of a text of SpecWords
MaxWords == 2

\* most table references in a text of SpecQuery
MaxRefs == 1

Heads == { "", "SELECT ", " select\n" }

Fragments ==
  { "SELECT", "SELECTED", "DROP", "(drop)", "DROPS", "TRUNCATE", "DELETE", "UPDATE",
    "INSERT", "EXEC", "EXECUTE", "MASTER", "SYSDBA", "INTO\n OUTFILE", "LOAD_FILE",
    "ALTER", "CREATE", "--", "/*", ";", "x", "", "select" }

RECURSIVE WordLists(_)
\* the texts of exactly n fragments, separated by one space
WordLists(n) ==
  IF n = 0 THEN {""}
  ELSE IF n = 1 THEN Fragments
  ELSE {t \o " " \o f : t \in WordLists(n - 1), f \in Fragments}

WordTexts == {h \o t : h \in Heads, t \in UNION {WordLists(n) : n \in 0..MaxWords}}

SelectLists == { "*", "p.FirstName", "P.Bogus" }
RefKeywords == { " FROM ", " from ", " JOIN " }
RefTables == { "Person.Person", "Sales.Store", "Nope.T" }
RefAliases == { "", " p", " AS p" }
TableRefs == {k \o t \o a : k \in RefKeywords, t \in RefTables, a \in RefAliases}

RECURSIVE RefLists(_)
\* the texts of exactly n table references
RefLists(n) ==
  IF n = 0 THEN {""} ELSE {t \o r : t \in RefLists(n - 1), r \in TableRefs}

QueryTexts ==
  {"SELECT " \o c \o t : c \in SelectLists, t \in UNION {RefLists(n) : n \in 0..MaxRefs}}

InitAnalysis ==
  /\ pc = "analysis"
  /\ attempt = 0
  /\ validation_result = NoAnalysis
  /\ analysed = None
  /\ outcome = NoOutcome
  /\ response = None
  /\ exec_calls = 0
  /\ db_calls = 0
  /\ regen_calls = 0
  /\ errors_logged = <<>>
  /\ content = ""
  /\ explanation = ""
  /\ InitThreads

InitWords ==
  /\ fetched = <<"ok", "ok">>
  /\ validator = SqlValidator("ok", "ok")
  /\ parser_ok = TRUE
  /\ order = <<"Person", "Sales", "Nope">>
  /\ sql \in WordTexts
  /\ InitAnalysis

InitQuery ==
  /\ InitEnv
  /\ sql \in QueryTexts
  /\ InitAnalysis

\* most table references in a text of SpecAlias
MaxAliasRefs == 2

AliasSelectLists == { "p.FirstName", "store.Name", "x.Bogus" }
AliasKeywords == { " FROM ", " JOIN " }
AliasTables == { "Person.Person", "Sales.Store" }
AliasNames == { "", " p", " AS P", " store" }
AliasRefs == {k \o t \o a : k \in AliasKeywords, t \in AliasTables, a \in AliasNames}

RECURSIVE AliasRefLists(_)
\* the texts of exactly n table references
AliasRefLists(n) ==
  IF n = 1 THEN AliasRefs ELSE {t \o r : t \in AliasRefLists(n - 1), r \in AliasRefs}

AliasTexts ==
  {"SELECT " \o c \o t : c \in AliasSelectLists,
                          t \in UNION {AliasRefLists(n) : n \in 1..MaxAliasRefs}}

InitAlias ==
  /\ fetched = <<"ok", "ok">>
  /\ validator = SqlValidator("ok", "ok")
  /\ parser_ok \in BOOLEAN
  /\ order = <<"Person", "Sales", "Nope">>
  /\ sql \in AliasTexts
  /\ InitAnalysis

\* one call get_sql_analysis(sql)
AnalyseStep ==
  /\ pc = "analysis"
  /\ GetSqlAnalysis(sql)
  /\ pc' = "analysed"
  /\ UNCHANGED <<sql, attempt, outcome, response, exec_calls, db_calls, regen_calls,
                 errors_logged, content, explanation, threads>>

NextAnalysis == AnalyseStep

SpecWords == InitWords /\ [][NextAnalysis]_vars
SpecQuery == InitQuery /\ [][NextAnalysis]_vars
SpecAlias == InitAlias /\ [][NextAnalysis]_vars

(***************************************************************************)
(* generate_sql and generate_sql_with_feedback: the parsing of the reply   *)
(* of the text-generation service.                                         *)
(***************************************************************************)
\* line.startswith(prefix)
startswith(line, prefix) ==
  Len(line) >= Len(prefix) /\ SubSeq(line, 1, Len(prefix)) = prefix

RECURSIVE find(_, _, _)
\* s.find(sub, i - 1) + 1: the first position from i on where sub occurs, 0 if none
find(s, sub, i) ==
  IF i + Len(sub) - 1 > Len(s) THEN 0
  ELSE IF SubSeq(s, i, i + Len(sub) - 1) = sub THEN i
  ELSE find(s, sub, i + 1)

RECURSIVE split(_, _)
\* s.split(sep)
split(s, sep) ==
  LET i == find(s, sep, 1)
  IN IF i = 0 THEN <<s>>
     ELSE <<SubSeq(s, 1, i - 1)>> \o split(SubSeq(s, i + Len(sep), Len(s)), sep)

RECURSIVE join(_, _)
\* "\n".join(lines[i - 1:]): the lines from the i-th on
join(lines, i) ==
  IF i > Len(lines) THEN ""
  ELSE IF i = Len(lines) THEN lines[i]
  ELSE lines[i] \o "\n" \o join(lines, i + 1)

\* the index of the first line that starts with prefix, 0 if none
\* (for i, line in enumerate(lines): if line.startswith(prefix): ... break)
FirstLine(lines, prefix) ==
  LET hits == {i \in 1..Len(lines) : startswith(lines[i], prefix)}
  IN IF hits = {} THEN 0 ELSE CHOOSE i \in hits : \A j \in hits : i <= j

\* the parsing of generate_sql
GenerateSqlParse(reply) ==
  LET stripped == strip(reply)
      lines == split(stripped, "\n")
      i == FirstLine(lines, "SQL:")
      j == FirstLine(lines, "Explanation:")
  IN [sql |-> IF i = 0 THEN ""
              ELSE strip(split(join(lines, i + 1), "Explanation:")[1]),
      explanation |-> IF j = 0 THEN "" ELSE strip(join(lines, j + 1))]

FeedbackParseNoBreak(reply) ==
  LET stripped == strip(reply)
      lines == split(stripped, "\n")
      hits == {i \in 1..Len(lines) : startswith(lines[i], "SQL:")}
      i == IF hits = {} THEN 0 ELSE CHOOSE k \in hits : \A m \in hits : m <= k
      j == FirstLine(lines, "Explanation:")
  IN [sql |-> IF i = 0 THEN ""
              ELSE strip(split(join(lines, i + 1), "Explanation:")[1]),
      explanation |-> IF j = 0 THEN "" ELSE strip(join(lines, j + 1))]

\* the parsing of generate_sql_with_feedback
FeedbackParse(reply) ==
  LET stripped == strip(reply)
      lines == split(stripped, "\n")
      i == FirstLine(lines, "SQL:")
      j == FirstLine(lines, "Explanation:")
  IN [sql |-> IF i = 0 THEN ""
              ELSE strip(split(join(lines, i + 1), "Explanation:")[1]),
      explanation |-> IF j = 0 THEN "" ELSE strip(join(lines, j + 1))]

\* most lines in a reply of SpecReply
MaxLines == 3

ReplyLines ==
  { "SQL:", "SQL: SELECT 1", " SQL:", "Explanation:", "Explanation: why",
    "SELECT 1", "SELECT 'Explanation:' x", "", " x " }

RECURSIVE LineLists(_)
\* the texts of exactly n lines
LineLists(n) ==
  IF n = 1 THEN ReplyLines
  ELSE {t \o "\n" \o l : t \in LineLists(n - 1), l \in ReplyLines}

ReplyTexts == UNION {LineLists(n) : n \in 1..MaxLines}

InitReply ==
  /\ fetched = <<"ok", "ok">>
  /\ validator = SqlValidator("ok", "ok")
  /\ parser_ok = TRUE
  /\ order = <<"Person", "Sales", "Nope">>
  /\ content \in ReplyTexts
  /\ pc \in {"generate_sql", "generate_sql_with_feedback"}
  /\ sql = ""
  /\ explanation = ""
  /\ InitThreads
  /\ attempt = 0
  /\ validation_result = NoAnalysis
  /\ analysed = None
  /\ outcome = NoOutcome
  /\ response = None
  /\ exec_calls = 0
  /\ db_calls = 0
  /\ regen_calls = 0
  /\ errors_logged = <<>>

\* generate_sql from the reply on: parse, validate, return
GenerateSql ==
  /\ pc = "generate_sql"
  /\ sql' = GenerateSqlParse(content).sql
  /\ explanation' = GenerateSqlParse(content).explanation
  /\ GetSqlAnalysis(sql')
  /\ pc' = "parsed"
  /\ UNCHANGED <<attempt, outcome, response, exec_calls, db_calls, regen_calls,
                 errors_logged, content, threads>>

\* generate_sql_with_feedback from the reply on: parse, return
GenerateSqlWithFeedback ==
  /\ pc = "generate_sql_with_feedback"
  /\ sql' = FeedbackParse(content).sql
  /\ explanation' = FeedbackParse(content).explanation
  /\ pc' = "parsed"
  /\ UNCHANGED <<validator, fetched, parser_ok, order, attempt, validation_result,
                 analysed, outcome, response, exec_calls, db_calls, regen_calls,
                 errors_logged, content, threads>>

NextReply ==
  \/ GenerateSql
  \/ GenerateSqlWithFeedback

SpecReply == InitReply /\ [][NextReply]_vars

(***************************************************************************)
(* execute_sql called directly on a text, without the handler.             *)
(***************************************************************************)
InitExecutor ==
  /\ fetched = <<"ok", "ok">>
  /\ validator = SqlValidator("ok", "ok")
  /\ parser_ok = TRUE
  /\ order = <<"Person", "Sales", "Nope">>
  /\ sql \in WordTexts
  /\ pc = "call"
  /\ attempt = 0
  /\ validation_result = NoAnalysis
  /\ analysed = None
  /\ outcome = NoOutcome
  /\ response = None
  /\ exec_calls = 0
  /\ db_calls = 0
  /\ regen_calls = 0
  /\ errors_logged = <<>>
  /\ content = ""
  /\ explanation = ""
  /\ InitThreads

\* one call execute_sql(sql)
ExecuteDirect ==
  /\ pc = "call"
  /\ \E db \in DbAnswers :
       /\ outcome' = execute_sql(sql, db)
       /\ db_calls' = IF is_select_statement(sql) THEN db_calls + 1 ELSE db_calls
  /\ exec_calls' = exec_calls + 1
  /\ pc' = "returned"
  /\ UNCHANGED <<validator, fetched, parser_ok, order, sql, attempt, validation_result,
                 analysed, response, regen_calls, errors_logged, content, explanation, threads>>

NextExecutor == ExecuteDirect

SpecExecutor == InitExecutor /\ [][NextExecutor]_vars

(***************************************************************************)
(* The catalog: refresh_schemas_and_columns replaces the validator, and    *)
(* get_sql_analysis is called twice on one text.                           *)
(***************************************************************************)
CatalogTexts ==
  RequestSqls \cup
  { "SELECT p.FirstName FROM Person.Person p ORDER BY p.LastName;",
    "SELECT P.Bogus FROM Person.Person P",
    "SELECT s.Name FROM Sales.Store s JOIN Nope.T n WHERE s.Name LIKE '%a'" }

InitCatalog ==
  /\ InitEnv
  /\ sql \in CatalogTexts
  /\ InitAnalysis

\* refresh_schemas_and_columns(): _validator = SqlValidator()
Refresh ==
  /\ \E so \in FetchOutcomes, co \in FetchOutcomes :
        /\ fetched' = <<so, co>>
        /\ validator' = SqlValidator(so, co)
  /\ UNCHANGED <<parser_ok, order, sql, pc, attempt, validation_result, analysed, outcome,
                 response, exec_calls, db_calls, regen_calls, errors_logged, content,
                 explanation, threads>>

\* a second call get_sql_analysis(sql) with the same text
AnalyseAgain ==
  /\ pc = "analysed"
  /\ GetSqlAnalysis(sql)
  /\ pc' = "analysed_again"
  /\ UNCHANGED <<sql, attempt, outcome, response, exec_calls, db_calls, regen_calls,
                 errors_logged, content, explanation, threads>>

NextCatalog ==
  \/ Refresh
  \/ AnalyseStep
  \/ AnalyseAgain

SpecCatalog == InitCatalog /\ [][NextCatalog]_vars

(***************************************************************************)
(* One get_sql_analysis call while refresh_schemas_and_columns runs in     *)
(* other threads, interleaved at every read and write of an attribute.     *)
(***************************************************************************)
\* most refreshes that run during the call
MaxRefreshes == 2

ConcurrentTexts ==
  { "SELECT p.FirstName FROM Person.Person p",
    "SELECT s.Bogus FROM Sales.Store s",
    "SELECT * FROM Nope.T" }

InitConcurrent ==
  /\ \E so \in FetchOutcomes, co \in FetchOutcomes :
        /\ fetched = <<so, co>>
        /\ validator = SqlValidator(so, co)
  /\ parser_ok = TRUE
  /\ order = <<"Person", "Sales", "Nope">>
  /\ sql \in ConcurrentTexts
  /\ InitAnalysis

\* validate, lines 223-254: the text passes every check up to the schema
\* check and schemas_used is not empty, so that validate_columns is called
ReachesColumnCheck(valid_schemas, text) ==
  LET stripped == strip(text)
  IN /\ stripped # ""
     /\ \E a \in 1..Len(allowed_operations) : re_search(allowed_operations[a], stripped, TRUE)
     /\ FirstDangerous(stripped) = 0
     /\ ~multiple_statements_pattern(stripped)
     /\ schemas_used(stripped) # {}
     /\ schemas_used(stripped) \subseteq valid_schemas

\* get_sql_analysis, line 305: _validator is read and its validate is called
EnterValidate ==
  /\ pc = "analysis"
  /\ call_self' = Some([instance |-> validator, generation |-> generation])
  /\ pc' = "validate_entered"
  /\ UNCHANGED <<validator, fetched, parser_ok, order, sql, attempt, validation_result,
                 analysed, outcome, response, exec_calls, db_calls, regen_calls,
                 errors_logged, content, explanation, new_instance, generation, reads>>

\* validate up to the loop over schemas_used, which reads self.valid_schemas;
\* the call returns here unless validate_columns is to be called
CheckSchemas ==
  /\ pc = "validate_entered"
  /\ reads' = Append(reads, [attribute |-> "valid_schemas",
                             generation |-> call_self[1].generation])
  /\ IF ReachesColumnCheck(call_self[1].instance.valid_schemas, sql)
     THEN /\ pc' = "schemas_checked"
          /\ UNCHANGED <<validation_result, analysed>>
     ELSE /\ pc' = "analysed"
          /\ validation_result' = Analysis(call_self[1].instance, sql, parser_ok, order)
          /\ analysed' = Some([sql |-> sql, validator |-> call_self[1].instance])
  /\ UNCHANGED <<validator, fetched, parser_ok, order, sql, attempt, outcome, response,
                 exec_calls, db_calls, regen_calls, errors_logged, content, explanation,
                 call_self, new_instance, generation>>

CheckColumnsOfGlobal ==
  /\ pc = "schemas_checked"
  /\ reads' = Append(reads, [attribute |-> "columns_dict", generation |-> generation])
  /\ validation_result' =
        Analysis([valid_schemas |-> call_self[1].instance.valid_schemas,
                  columns_dict |-> validator.columns_dict], sql, parser_ok, order)
  /\ analysed' = Some([sql |-> sql, validator |-> call_self[1].instance])
  /\ pc' = "analysed"
  /\ UNCHANGED <<validator, fetched, parser_ok, order, sql, attempt, outcome, response,
                 exec_calls, db_calls, regen_calls, errors_logged, content, explanation,
                 call_self, new_instance, generation>>

\* validate_columns, which reads self.columns_dict, and the return of
\* validate and of get_sql_analysis
CheckColumns ==
  /\ pc = "schemas_checked"
  /\ reads' = Append(reads, [attribute |-> "columns_dict",
                             generation |-> call_self[1].generation])
  /\ validation_result' = Analysis(call_self[1].instance, sql, parser_ok, order)
  /\ analysed' = Some([sql |-> sql, validator |-> call_self[1].instance])
  /\ pc' = "analysed"
  /\ UNCHANGED <<validator, fetched, parser_ok, order, sql, attempt, outcome, response,
                 exec_calls, db_calls, regen_calls, errors_logged, content, explanation,
                 call_self, new_instance, generation>>

\* refresh_schemas_and_columns: SqlValidator() starts and sets self.valid_schemas
FetchSchemas ==
  /\ new_instance = None
  /\ generation < MaxRefreshes
  /\ \E so \in FetchOutcomes :
        new_instance' = Some([stage |-> "schemas_set",
                              outcomes |-> <<so, "">>,
                              valid_schemas |-> get_database_schemas(so),
                              columns_dict |-> <<>>])
  /\ UNCHANGED <<validator, fetched, parser_ok, order, sql, pc, attempt, validation_result,
                 analysed, outcome, response, exec_calls, db_calls, regen_calls,
                 errors_logged, content, explanation, call_self, generation, reads>>

\* SqlValidator() sets self.columns_dict and returns
FetchColumns ==
  /\ new_instance # None
  /\ new_instance[1].stage = "schemas_set"
  /\ \E co \in FetchOutcomes :
        new_instance' = Some([stage |-> "constructed",
                              outcomes |-> <<new_instance[1].outcomes[1], co>>,
                              valid_schemas |-> new_instance[1].valid_schemas,
                              columns_dict |-> get_database_columns(co)])
  /\ UNCHANGED <<validator, fetched, parser_ok, order, sql, pc, attempt, validation_result,
                 analysed, outcome, response, exec_calls, db_calls, regen_calls,
                 errors_logged, content, explanation, call_self, generation, reads>>

\* refresh_schemas_and_columns, line 323: _validator = the instance constructed
Install ==
  /\ new_instance # None
  /\ new_instance[1].stage = "constructed"
  /\ validator' = [valid_schemas |-> new_instance[1].valid_schemas,
                   columns_dict |-> new_instance[1].columns_dict]
  /\ fetched' = new_instance[1].outcomes
  /\ generation' = generation + 1
  /\ new_instance' = None
  /\ UNCHANGED <<parser_ok, order, sql, pc, attempt, validation_result, analysed, outcome,
                 response, exec_calls, db_calls, regen_calls, errors_logged, content,
                 explanation, call_self, reads>>

NextConcurrent ==
  \/ EnterValidate
  \/ CheckSchemas
  \/ CheckColumns
  \/ FetchSchemas
  \/ FetchColumns
  \/ Install

SpecConcurrent == InitConcurrent /\ [][NextConcurrent]_vars

(***************************************************************************)
(* Properties of execute_sql_endpoint, checked under Spec.                 *)
(***************************************************************************)
Done == pc = "done"
Resp == response[1]
Rejected == Done /\ analysed # None /\ ~validation_result.is_valid

\* C1: one request calls execute_sql at most three times (max_attempts = 3),
\* whatever the executor and the regeneration return or raise.
C1_RetryBound == exec_calls <= 3

C1_Witness == Done /\ exec_calls = 3 /\ regen_calls = 2

\* C2: when the validator rejects the working SQL in attempt k, the handler
\* returns at once error = "Invalid SQL: " + validator error and retry_count 0;
\* the executor and the regeneration have been called only in the k - 1
\* earlier attempts, so not at all when k = 1.
C2_ValidationRejection ==
  Rejected =>
    /\ analysed[1].sql = sql
    /\ Resp.results = None
    /\ Resp.error = Some("Invalid SQL: " \o validation_result.error)
    /\ Resp.retry_count = Some(0)
    /\ exec_calls = attempt - 1
    /\ regen_calls = attempt - 1
    /\ (attempt = 1 => exec_calls = 0 /\ regen_calls = 0)

C2_Witness == Rejected /\ attempt = 3 /\ regen_calls = 2 /\ Resp.retry_count = Some(0)

\* C3: when execute_sql first succeeds in attempt k, after k - 1 attempts whose
\* execution errors were sent to regeneration, the handler returns the rows,
\* no error, and retry_count = k - 1.
C3_SuccessRetryCount ==
  (Done /\ outcome.results # None /\ regen_calls = attempt - 1) =>
    /\ Resp.results = outcome.results
    /\ Resp.results # None
    /\ Resp.execution_time # None
    /\ Resp.error = None
    /\ Resp.retry_count = Some(attempt - 1)

C3_Witness ==
  Done /\ outcome.results # None /\ attempt = 3 /\ regen_calls = 2
       /\ Resp.retry_count = Some(2)

\* C4: an error returned by execute_sql in an attempt before the last sends
\* the handler to regeneration; in the last attempt the handler returns no
\* rows, that error unchanged and retry_count = attempt - 1.
C4_ErrorRegeneratesOrFails ==
  [][ (pc = "execute" /\ outcome'.error # None) =>
        IF attempt < max_attempts
        THEN pc' = "regenerate" /\ response' = None
        ELSE /\ pc' = "done"
             /\ response'[1].results = None
             /\ response'[1].error = outcome'.error
             /\ response'[1].retry_count = Some(attempt - 1) ]_vars

Exhausted == Done /\ attempt = max_attempts /\ exec_calls = max_attempts /\ outcome.error # None
Succeeded == Done /\ outcome.results # None

\* C5 as stated: retry_count is attempt - 1 on success and the full attempt
\* count, max_attempts, when the attempts are exhausted.
C5_RetryCountAsStated ==
  /\ Succeeded => Resp.retry_count = Some(attempt - 1)
  /\ Exhausted => Resp.retry_count = Some(max_attempts)

\* C5 amended: retry_count is attempt - 1 on success and also attempt - 1,
\* that is max_attempts - 1, when the attempts are exhausted.
C5_RetryCountAmended ==
  /\ Succeeded => Resp.retry_count = Some(attempt - 1)
  /\ Exhausted => Resp.retry_count = Some(max_attempts - 1)

C5_Witness == Exhausted /\ Resp.retry_count = Some(2) /\ regen_calls = 2

\* C12: every response of the handler (success, validation rejection,
\* exhausted attempts, caught exception) and every triple execute_sql returned
\* carries exactly one of results and error (the other is None); the handler
\* has no response, and execute_sql no triple, only while none has returned.
C12_TerminalShape ==
  /\ Done <=> response # None
  /\ Done => (Resp.results = None) # (Resp.error = None)
  /\ Done => ~Resp.fell_through
  /\ exec_calls > 0 => (outcome.results = None) # (outcome.error = None)
  /\ exec_calls = 0 => outcome = NoOutcome

C12_Witness ==
  /\ Done
  /\ exec_calls = max_attempts
  /\ outcome.results = None /\ outcome.error # None
  /\ Resp.results = None /\ Resp.error = outcome.error

\* the response is the record (results, execution_time, error, retry_count)
Structured ==
  /\ response # None
  /\ ~Resp.fell_through
  /\ Resp.retry_count # None
  /\ Resp.retry_count[1] \in 0..(max_attempts - 1)
  /\ (Resp.results = None) # (Resp.error = None)

\* C17: whatever the validator, the executor and the regeneration return or
\* raise, the handler makes at most max_attempts loop iterations, always
\* returns, and what it returns is a structured record: it never leaves the
\* loop without a result and no exception leaves it.
C17_NeverCrashes ==
  /\ [](attempt <= max_attempts)
  /\ [](pc \in {"loop", "validate", "execute", "regenerate", "done"})
  /\ [](Done => Structured)
  /\ <>Done

C17_Witness ==
  /\ Done
  /\ Structured
  /\ attempt = max_attempts
  /\ Len(errors_logged) = 2
  /\ Resp.error # None

(***************************************************************************)
(* Properties of validate, checked under SpecWords and SpecQuery.  The     *)
(* text is read here as a sequence of tokens: a token is a maximal run of  *)
(* word characters, a maximal run of white space, or one other character.  *)
(***************************************************************************)
TokenKind(c) == IF IsWordChar(c) THEN "word" ELSE IF IsSpace(c) THEN "space" ELSE "other"

RECURSIVE Tokens(_, _, _)
\* the tokens of s from position i on, cur being the token under construction
Tokens(s, i, cur) ==
  IF i > Len(s) THEN (IF cur = "" THEN <<>> ELSE <<cur>>)
  ELSE LET c == Char(s, i)
           extends == /\ cur # ""
                      /\ TokenKind(c) # "other"
                      /\ TokenKind(c) = TokenKind(Char(cur, 1))
       IN IF extends THEN Tokens(s, i + 1, cur \o c)
          ELSE (IF cur = "" THEN <<>> ELSE <<cur>>) \o Tokens(s, i + 1, c)

TokensOf(s) == Tokens(s, 1, "")

RECURSIVE Folded(_)
\* the text in upper case
Folded(s) == IF s = "" THEN "" ELSE upper(Char(s, 1)) \o Folded(SubSeq(s, 2, Len(s)))

IsSpaceToken(t) == IsSpace(Char(t, 1))
IsWordToken(t) == IsWordChar(Char(t, 1))

\* the text holds the word w (given in upper case) as a whole word, in any case
HasWord(s, w) == LET ts == TokensOf(s) IN \E k \in 1..Len(ts) : Folded(ts[k]) = w

\* the text holds the words a and b, in this order, with only white space between
HasPhrase(s, a, b) ==
  LET ts == TokensOf(s)
  IN \E k \in 1..Len(ts) :
        /\ k + 2 <= Len(ts)
        /\ Folded(ts[k]) = a
        /\ IsSpaceToken(ts[k + 1])
        /\ Folded(ts[k + 2]) = b

\* the text holds two adjacent characters
HasMarker(s, m) == \E i \in 1..Len(s) : i < Len(s) /\ Char(s, i) \o Char(s, i + 1) = m

IsBlank(s) == \A i \in 1..Len(s) : IsSpace(Char(s, i))

\* the denylist as the specification lists it, each entry with its message
Denylist ==
  << [words |-> {"DROP"}, phrase |-> <<>>, marker |-> "",
      message |-> "DROP operations are not allowed"],
     [words |-> {"TRUNCATE"}, phrase |-> <<>>, marker |-> "",
      message |-> "TRUNCATE operations are not allowed"],
     [words |-> {"DELETE"}, phrase |-> <<>>, marker |-> "",
      message |-> "DELETE operations are not allowed"],
     [words |-> {"UPDATE"}, phrase |-> <<>>, marker |-> "",
      message |-> "UPDATE operations are not allowed"],
     [words |-> {"INSERT"}, phrase |-> <<>>, marker |-> "",
      message |-> "INSERT operations are not allowed"],
     [words |-> {"EXEC", "EXECUTE"}, phrase |-> <<>>, marker |-> "",
      message |-> "EXEC/EXECUTE operations are not allowed"],
     [words |-> {"MASTER"}, phrase |-> <<>>, marker |-> "",
      message |-> "References to master database are not allowed"],
     [words |-> {"SYSDBA"}, phrase |-> <<>>, marker |-> "",
      message |-> "SYSDBA operations are not allowed"],
     [words |-> {}, phrase |-> <<"INTO", "OUTFILE">>, marker |-> "",
      message |-> "INTO OUTFILE operations are not allowed"],
     [words |-> {"LOAD_FILE"}, phrase |-> <<>>, marker |-> "",
      message |-> "LOAD_FILE operations are not allowed"],
     [words |-> {"ALTER"}, phrase |-> <<>>, marker |-> "",
      message |-> "ALTER operations are not allowed"],
     [words |-> {"CREATE"}, phrase |-> <<>>, marker |-> "",
      message |-> "CREATE operations are not allowed"],
     [words |-> {}, phrase |-> <<>>, marker |-> "--",
      message |-> "SQL comments are not allowed"],
     [words |-> {}, phrase |-> <<>>, marker |-> "/*",
      message |-> "SQL comments are not allowed"] >>

\* the text holds the k-th entry of the denylist
Mentions(s, k) ==
  LET e == Denylist[k]
  IN \/ \E w \in e.words : HasWord(s, w)
     \/ e.phrase # <<>> /\ HasPhrase(s, e.phrase[1], e.phrase[2])
     \/ e.marker # "" /\ HasMarker(s, e.marker)

Analysed == pc = "analysed"
OnlySelectMessage == "Only SELECT operations are allowed"

\* C6 as stated: a text that holds a denylisted keyword or pattern, in any
\* case, is invalid and the error is that keyword's own message, whatever else
\* the text holds.
C6_DenylistAsStated ==
  Analysed =>
    \A k \in 1..Len(Denylist) :
       Mentions(sql, k) =>
         /\ ~validation_result.is_valid
         /\ validation_result.error = Denylist[k].message

\* C6 amended: a text that holds a denylisted keyword or pattern, in any case,
\* is invalid; the error is "Only SELECT operations are allowed" when the text
\* holds no SELECT keyword, and otherwise the message of the first entry, in
\* the order of the list, that the text holds.
C6_DenylistAmended ==
  Analysed =>
    \A k \in 1..Len(Denylist) :
       Mentions(sql, k) =>
         /\ ~validation_result.is_valid
         /\ ~HasWord(sql, "SELECT") => validation_result.error = OnlySelectMessage
         /\ (HasWord(sql, "SELECT") /\ \A j \in 1..(k - 1) : ~Mentions(sql, j))
               => validation_result.error = Denylist[k].message

C6_Witness ==
  /\ Analysed
  /\ HasWord(sql, "SELECT")
  /\ Contains(sql, "(drop)")
  /\ Mentions(sql, 3)
  /\ validation_result.error = "DROP operations are not allowed"

\* C7 as stated: a text without a SELECT keyword, blank texts included, is
\* invalid with the error "Only SELECT operations are allowed".
C7_NoSelectAsStated ==
  (Analysed /\ ~HasWord(sql, "SELECT")) =>
    /\ ~validation_result.is_valid
    /\ validation_result.error = OnlySelectMessage

\* C7 amended: a text without a SELECT keyword is invalid; the error is
\* "SQL query is empty" when the text is blank and "Only SELECT operations are
\* allowed" otherwise.
C7_NoSelectAmended ==
  (Analysed /\ ~HasWord(sql, "SELECT")) =>
    /\ ~validation_result.is_valid
    /\ validation_result.error =
         IF IsBlank(sql) THEN "SQL query is empty" ELSE OnlySelectMessage

C7_Witness ==
  /\ Analysed
  /\ HasWord(sql, "SELECTED")
  /\ ~HasWord(sql, "SELECT")
  /\ ~IsBlank(sql)
  /\ validation_result.error = OnlySelectMessage

\* the schema names the text references through "FROM schema." or
\* "JOIN schema.", the keyword in any case
ReferencedSchemas(s) ==
  LET ts == TokensOf(s)
  IN {ts[k + 2] : k \in {j \in 1..Len(ts) :
                           /\ j + 3 <= Len(ts)
                           /\ Folded(ts[j]) \in {"FROM", "JOIN"}
                           /\ IsSpaceToken(ts[j + 1])
                           /\ IsWordToken(ts[j + 2])
                           /\ ts[j + 3] = "."}}

\* the text passes the SELECT, denylist and multiple-statement checks
PassesKeywordChecks(s) ==
  /\ HasWord(s, "SELECT")
  /\ \A k \in 1..Len(Denylist) : ~Mentions(s, k)
  /\ ~Contains(s, ";")

\* C8: a text that passes the keyword checks and references, through FROM or
\* JOIN in any case, a schema that is not in valid_schemas is invalid, and the
\* error names that schema.
C8_SchemaExistence ==
  (Analysed /\ PassesKeywordChecks(sql)) =>
    \A schema \in ReferencedSchemas(sql) :
       schema \notin analysed[1].validator.valid_schemas =>
         /\ ~validation_result.is_valid
         /\ Contains(validation_result.error, "Invalid schema: " \o schema \o ".")

\* the error of a column that its table lacks
ColumnMessage(column, table) ==
  "Column '" \o column \o "' not found in table '" \o table \o "'"

\* C9: a text that passes the earlier checks and holds a pair alias.column,
\* the alias resolving to a schema.table of columns_dict that lacks the column,
\* is invalid, and the error names the column and the schema.table.  (A pair
\* whose two names are equal up to case, such as Person.Person, is the subject
\* of C10 and is left out here.)
C9_ColumnExistence ==
  (/\ Analysed
   /\ parser_ok
   /\ PassesKeywordChecks(sql)
   /\ ReferencedSchemas(sql) \subseteq analysed[1].validator.valid_schemas) =>
    LET aliases == extract_table_aliases(strip(sql))
        refs == extract_column_references(strip(sql))
        columns_dict == analysed[1].validator.columns_dict
    IN \A n \in 1..Len(refs) :
          (/\ refs[n][1] \in DOMAIN aliases
           /\ refs[n][1] # lower(refs[n][2])
           /\ aliases[refs[n][1]] \in DOMAIN columns_dict
           /\ refs[n][2] \notin columns_dict[aliases[refs[n][1]]]) =>
             /\ ~validation_result.is_valid
             /\ validation_result.error = ColumnMessage(refs[n][2], aliases[refs[n][1]])

\* C10: "SELECT * FROM S.T", with S in valid_schemas and S.T a key of
\* columns_dict, is valid, also when the table is named like its schema.
C10_UnqualifiedStar ==
  (Analysed /\ parser_ok) =>
    \A row \in DbColumnRows :
       (/\ sql = "SELECT * FROM " \o row[1] \o "." \o row[2]
        /\ row[1] \in analysed[1].validator.valid_schemas
        /\ (row[1] \o "." \o row[2]) \in DOMAIN analysed[1].validator.columns_dict) =>
          /\ validation_result.is_valid
          /\ validation_result.error = ""

StartsWithSelect(s) ==
  LET ts == TokensOf(s)
      k == IF ts # <<>> /\ IsSpaceToken(ts[1]) THEN 2 ELSE 1
  IN k <= Len(ts) /\ Folded(ts[k]) = "SELECT"

\* C13: execute_sql called on a text whose first token after leading white
\* space is not SELECT (any letter case) returns no rows, no time and an error,
\* and no statement has been sent to the database.
C13_ExecutorGate ==
  (pc = "returned" /\ ~StartsWithSelect(sql)) =>
    /\ outcome.results = None
    /\ outcome.execution_time = None
    /\ outcome.error = Some("Only SELECT statements are allowed for security reasons")
    /\ db_calls = 0

C13_Witness ==
  /\ pc = "returned"
  /\ ~StartsWithSelect(sql)
  /\ HasWord(sql, "SELECT")
  /\ HasWord(sql, "DROP")
  /\ outcome.error # None
  /\ db_calls = 0

\* C14: when a metadata fetch of a refresh fails (no connection, or the query
\* raises), the refresh still returns a catalog: a failed schema fetch leaves
\* the default schema set and a failed column fetch leaves an empty column map.
C14_RefreshFallback ==
  /\ fetched[1] # "ok" => validator.valid_schemas = DefaultSchemas
  /\ fetched[2] # "ok" => validator.columns_dict = <<>>

(***************************************************************************)
(* Properties of the reply parsing, checked under SpecReply.  The reply is *)
(* read here by positions: a line starts at position 1 and after each line *)
(* feed.                                                                   *)
(***************************************************************************)
LineStartsOf(s) == {1} \cup {k + 1 : k \in {i \in 1..Len(s) : Char(s, i) = "\n"}}

OccursAt(s, i, m) == i + Len(m) - 1 <= Len(s) /\ SubSeq(s, i, i + Len(m) - 1) = m

Least(S) == CHOOSE i \in S : \A j \in S : i <= j

\* the positions of the lines of s that start with the marker m
MarkerLines(s, m) == {i \in LineStartsOf(s) : OccursAt(s, i, m)}

\* the rule of the SQL section applied to the text s: from the line after the
\* first line starting with "SQL:" up to the first "Explanation:" after it,
\* trimmed; empty when no line starts with "SQL:"
SqlSection(s) ==
  IF MarkerLines(s, "SQL:") = {} THEN ""
  ELSE LET i == Least(MarkerLines(s, "SQL:"))
           feeds == {k \in i..Len(s) : Char(s, k) = "\n"}
       IN IF feeds = {} THEN ""
          ELSE LET from == Least(feeds) + 1
                   marks == {k \in from..Len(s) : OccursAt(s, k, "Explanation:")}
                   to == IF marks = {} THEN Len(s) ELSE Least(marks) - 1
               IN strip(SubSeq(s, from, to))

\* C15 as stated: the SQL that generate_sql and generate_sql_with_feedback
\* parse out of a reply is the SQL section of the reply text as received.
C15_SqlSectionAsStated == pc = "parsed" => sql = SqlSection(content)

\* C15 amended: the parsed SQL is the SQL section of the reply after white
\* space has been trimmed from both ends of the reply; the section ends at the
\* first occurrence of "Explanation:", wherever on a line it stands.
C15_SqlSectionAmended == pc = "parsed" => sql = SqlSection(strip(content))

C15_Witness ==
  /\ pc = "parsed"
  /\ analysed = None
  /\ OccursAt(content, 1, " SQL:")
  /\ sql = "SELECT 1"
  /\ explanation = ""

\* C16: when a line of the reply starts with "Explanation:", the parsed
\* explanation is the trimmed text from just after the first such marker to
\* the end of the reply, the rest of the marker's own line included.
C16_ExplanationSection ==
  (pc = "parsed" /\ MarkerLines(content, "Explanation:") # {}) =>
    LET i == Least(MarkerLines(content, "Explanation:"))
    IN explanation = strip(SubSeq(content, i + Len("Explanation:"), Len(content)))

(***************************************************************************)
(* More properties of execute_sql_endpoint, checked under Spec.            *)
(***************************************************************************)
\* C18: when a call of generate_sql_with_feedback has failed during the
\* request, the response carries that failure as its error, with no rows, and
\* regeneration has been called at most max_attempts times.
C18_UpstreamFailureSurfaced ==
  (Done /\ UpstreamFailure \in {errors_logged[n] : n \in 1..Len(errors_logged)}) =>
    /\ Resp.results = None
    /\ Resp.error = Some(UpstreamFailure)
    /\ regen_calls <= max_attempts

\* a semicolon followed, after optional white space, by a statement keyword
HasSecondStatement(s) ==
  LET ts == TokensOf(s)
      Starts(k) == k <= Len(ts) /\ Folded(ts[k]) \in
                     {"SELECT", "INSERT", "UPDATE", "DELETE", "DROP", "CREATE", "ALTER"}
  IN \E k \in 1..Len(ts) :
        /\ ts[k] = ";"
        /\ \/ Starts(k + 1)
           \/ k + 1 <= Len(ts) /\ IsSpaceToken(ts[k + 1]) /\ Starts(k + 2)

\* C19: execute_sql is entered only from the validation of the same attempt,
\* and the text it is called on is exactly the text get_sql_analysis accepted
\* in that validation, original or regenerated: it holds SELECT, no denylisted
\* keyword and no second statement.
C19_ValidatedBeforeExecuted ==
  [][ /\ pc' = "execute" => (pc = "validate" /\ attempt' = attempt /\ sql' = sql)
      /\ exec_calls' # exec_calls =>
           /\ pc = "execute"
           /\ analysed = Some([sql |-> sql, validator |-> validator])
           /\ validation_result.is_valid
           /\ HasWord(sql, "SELECT")
           /\ \A k \in 1..Len(Denylist) : ~Mentions(sql, k)
           /\ ~HasSecondStatement(sql) ]_vars

C19_Witness ==
  /\ Done
  /\ exec_calls = 3
  /\ regen_calls = 2
  /\ sql \in CorrectedSqls
  /\ analysed = Some([sql |-> sql, validator |-> validator])

\* C20: when the handler catches an exception in attempt k, then for
\* k < max_attempts it goes back to the loop test without a response, with
\* the working SQL unchanged and without asking for a regeneration, and for
\* k = max_attempts it returns no rows, error = str(e), retry_count = k - 1.
C20_ExceptionInAttempt ==
  [][ Len(errors_logged') = Len(errors_logged) + 1 =>
        /\ attempt' = attempt
        /\ exec_calls' = exec_calls
        /\ IF attempt < max_attempts
           THEN /\ pc' = "loop"
                /\ sql' = sql
                /\ response' = None
           ELSE /\ pc' = "done"
                /\ response'[1].results = None
                /\ response'[1].error = Some(errors_logged'[Len(errors_logged')])
                /\ response'[1].retry_count = Some(attempt - 1) ]_vars

C20_Witness ==
  /\ pc = "execute"
  /\ attempt = 3
  /\ Len(errors_logged) = 2
  /\ regen_calls = 2
  /\ exec_calls = 2
  /\ sql \in RequestSqls

(***************************************************************************)
(* More properties of validate, checked under SpecWords and SpecQuery.     *)
(***************************************************************************)
\* the entries of the denylist that the text holds
Mentioned(s) == {k \in 1..Len(Denylist) : Mentions(s, k)}

\* the schemas the text references, in any keyword case, that the catalog lacks
UnknownSchemas(s, catalog) == {x \in ReferencedSchemas(s) : x \notin catalog.valid_schemas}

\* C21: the error of validate is the message of the first check the text
\* fails, the checks taken in the order empty text, SELECT present, denylist
\* in list order, multiple statements, schema existence (FROM or JOIN in any
\* case), column existence; a text that fails none is valid with error "".
C21_CheckOrder ==
  Analysed =>
    LET catalog == analysed[1].validator
        columns == validate_columns(catalog, strip(sql), parser_ok)
        r == validation_result
    IN IF IsBlank(sql) THEN ~r.is_valid /\ r.error = "SQL query is empty"
       ELSE IF ~HasWord(sql, "SELECT") THEN ~r.is_valid /\ r.error = OnlySelectMessage
       ELSE IF Mentioned(sql) # {}
       THEN ~r.is_valid /\ r.error = Denylist[Least(Mentioned(sql))].message
       ELSE IF HasSecondStatement(sql)
       THEN ~r.is_valid /\ r.error = "Multiple SQL statements are not allowed"
       ELSE IF UnknownSchemas(sql, catalog) # {}
       THEN /\ ~r.is_valid
            /\ \E x \in UnknownSchemas(sql, catalog) :
                  Contains(r.error, "Invalid schema: " \o x \o ".")
       ELSE IF ReferencedSchemas(sql) # {} /\ ~columns.is_valid
       THEN ~r.is_valid /\ r.error = columns.error
       ELSE r.is_valid /\ r.error = ""

\* the text holds exactly one semicolon, and only white space follows it
OnlyTrailingSemicolon(s) ==
  LET ts == TokensOf(s)
      semis == {k \in 1..Len(ts) : ts[k] = ";"}
  IN /\ Cardinality(semis) = 1
     /\ \A k \in semis :
           k = Len(ts) \/ (k + 1 = Len(ts) /\ IsSpaceToken(ts[k + 1]))

SemicolonWarning == "Semicolons in SQL queries are not needed and might cause issues"

\* C22: a text that passes the empty, SELECT and denylist checks and holds a
\* semicolon followed, after optional white space, by a statement keyword in
\* any case is invalid with the multiple-statements error; a text that passes
\* them and whose only semicolon is trailing is valid, carries the semicolon
\* warning, and is not estimated safe.
C22_MultipleStatements ==
  (Analysed /\ ~IsBlank(sql) /\ HasWord(sql, "SELECT") /\ Mentioned(sql) = {}) =>
    /\ HasSecondStatement(sql) =>
         /\ ~validation_result.is_valid
         /\ validation_result.error = "Multiple SQL statements are not allowed"
    /\ OnlyTrailingSemicolon(sql) =>
         /\ validation_result.is_valid
         /\ validation_result.error = ""
         /\ \E n \in 1..Len(validation_result.warnings) :
               validation_result.warnings[n] = SemicolonWarning
         /\ ~validation_result.estimated_safe

C22_Witness ==
  /\ Analysed
  /\ Contains(sql, "SELECT ; select")
  /\ Mentioned(sql) = {}
  /\ validation_result.error = "Multiple SQL statements are not allowed"

(***************************************************************************)
(* Properties of the column check, checked under SpecAlias.                *)
(***************************************************************************)
\* C23: when the extraction of aliases or of column references raises inside
\* validate_columns, a text that passed the empty, SELECT, denylist,
\* multiple-statement and schema checks is valid with error "": the internal
\* error is neither an invalid result nor an exception out of validate.
C23_FailOpen ==
  (/\ Analysed
   /\ ~parser_ok
   /\ PassesKeywordChecks(sql)
   /\ UnknownSchemas(sql, analysed[1].validator) = {}) =>
    /\ validation_result.is_valid
    /\ validation_result.error = ""

C23_Witness ==
  /\ Analysed
  /\ ~parser_ok
  /\ Contains(sql, "store.Name FROM Person.Person store")
  /\ ~CheckColumnRefs(validator, extract_table_aliases(sql),
                      extract_column_references(sql), 1).is_valid
  /\ validation_result.is_valid

\* the words that end a table reference instead of naming it
ClauseWords == { "FROM", "JOIN", "ON", "WHERE", "GROUP", "ORDER", "HAVING",
                 "INNER", "LEFT", "RIGHT", "FULL", "CROSS", "UNION" }

\* the positions, in the tokens of s, of the keywords of the table references
\* FROM schema.table and JOIN schema.table
TableReferences(s) ==
  LET ts == TokensOf(s)
  IN {j \in 1..Len(ts) :
        /\ j + 4 <= Len(ts)
        /\ Folded(ts[j]) \in {"FROM", "JOIN"}
        /\ IsSpaceToken(ts[j + 1])
        /\ IsWordToken(ts[j + 2])
        /\ ts[j + 3] = "."
        /\ IsWordToken(ts[j + 4])}

ReferenceTable(s, j) == LET ts == TokensOf(s) IN ts[j + 2] \o "." \o ts[j + 4]

\* the alias the reference at j gives its table, None when it gives none
ReferenceAlias(s, j) ==
  LET ts == TokensOf(s)
      word(k) == k <= Len(ts) /\ IsSpaceToken(ts[k - 1]) /\ IsWordToken(ts[k])
  IN IF word(j + 6) /\ Folded(ts[j + 6]) = "AS" /\ word(j + 8) THEN Some(ts[j + 8])
     ELSE IF word(j + 6) /\ Folded(ts[j + 6]) \notin ClauseWords \cup {"AS"}
          THEN Some(ts[j + 6])
          ELSE None

\* the alias key of the reference at j: the alias in lower case, or the bare
\* table name in lower case when no alias is given
AliasKey(s, j) ==
  LET ts == TokensOf(s)
      alias == ReferenceAlias(s, j)
  IN IF Truthy(alias) THEN lower(alias[1]) ELSE lower(ts[j + 4])

Greatest(S) == CHOOSE i \in S : \A j \in S : j <= i

\* the positions of the pairs alias.column of the select list
SelectListPairs(s) ==
  LET ts == TokensOf(s)
  IN {k \in 1..Len(ts) :
        /\ k + 2 <= Len(ts)
        /\ IsWordToken(ts[k]) /\ ts[k + 1] = "." /\ IsWordToken(ts[k + 2])
        /\ \A j \in 1..(k + 2) : Folded(ts[j]) \notin {"FROM", "JOIN"}}

\* C24: when several FROM/JOIN references of one text bind the same alias key
\* (the alias in lower case, or the bare table name in lower case when no
\* alias is given), a pair alias.column using that key is checked against the
\* columns of the last of these references and of no other: the text is
\* invalid when that table lacks the column, and no other table is named in
\* a column error for the pair when it has it.  A pair whose alias is no alias
\* key causes no column error.
C24_AliasResolution ==
  (/\ Analysed
   /\ parser_ok
   /\ PassesKeywordChecks(sql)
   /\ UnknownSchemas(sql, analysed[1].validator) = {}) =>
    LET ts == TokensOf(sql)
        columns_dict == analysed[1].validator.columns_dict
        r == validation_result
    IN \A k \in SelectListPairs(sql) :
          LET column == ts[k + 2]
              bound == {j \in TableReferences(sql) : AliasKey(sql, j) = lower(ts[k])}
              none_named == \A t \in DOMAIN columns_dict : r.error # ColumnMessage(column, t)
          IN IF bound = {} THEN none_named
             ELSE LET last == ReferenceTable(sql, Greatest(bound))
                  IN (Cardinality(bound) > 1 /\ last \in DOMAIN columns_dict) =>
                        IF column \in columns_dict[last] THEN none_named ELSE ~r.is_valid

(***************************************************************************)
(* Properties of the catalog, checked under SpecCatalog.                   *)
(***************************************************************************)
\* the key is schema.table for a schema of the set
KeyOfSchemas(key, schemas) ==
  LET ts == TokensOf(key)
  IN /\ Len(ts) = 3
     /\ IsWordToken(ts[1]) /\ ts[2] = "." /\ IsWordToken(ts[3])
     /\ ts[1] \in schemas

\* C25: after every construction and every refresh of the catalog, whichever
\* of its two fetches failed, each key of columns_dict is schema.table with
\* schema one of valid_schemas of the same catalog.
C25_CatalogKeys ==
  \A key \in DOMAIN validator.columns_dict : KeyOfSchemas(key, validator.valid_schemas)

(***************************************************************************)
(* The catalog under a concurrent refresh, checked under SpecConcurrent.   *)
(***************************************************************************)
\* C26: _validator changes only when a refresh assigns it, and then to a
\* fully constructed instance; validation never changes it.  A validate call
\* that refreshes interleave with reads valid_schemas and columns_dict of one
\* single installed instance, and its result is the result on that instance.
C26_OneSnapshot ==
  [][/\ generation' = generation => validator' = validator
     /\ validator' \in Validators
     /\ pc' = "analysed" =>
          /\ \A i, j \in 1..Len(reads') : reads'[i].generation = reads'[j].generation
          /\ validation_result' = Analysis(call_self'[1].instance, sql', parser_ok', order')]_vars

C26_Witness ==
  /\ pc = "analysed"
  /\ Len(reads) = 2
  /\ generation > reads[1].generation
  /\ validator.valid_schemas # call_self[1].instance.valid_schemas
  /\ validator.columns_dict # call_self[1].instance.columns_dict
  /\ validation_result # Analysis(validator, sql, parser_ok, order)
====
